---- MODULE Spec2Model ----
(***************************************************************************)
(* Model of the watch-mode transcription pipeline of transcribe_auto.py    *)
(* (monitor.py + transcribe.py hold the same code): the creation-event     *)
(* handler AudioFileHandler.on_created, the readiness wait, the            *)
(* processing_files guard, transcribe_audio with its temp files, and       *)
(* save_transcription.                                                     *)
(*                                                                         *)
(* Time is counted in ticks of one poll interval (time.sleep(0.5)).        *)
(* Texts are sequences of characters; "\n" is the line break.              *)
(***************************************************************************)
EXTENDS Integers, Sequences, FiniteSets, TLC

\* ------------------------------------------------------------- bounds
MaxEvents == 2          \* creation events delivered in one behaviour
MaxSize == 1            \* file sizes observed by a poll are 0..MaxSize
MaxChunks == 3          \* the longest recording decodes into MaxChunks chunks
MaxDur == 12            \* splitter check: durations 0..MaxDur
MaxSeg == 5             \* splitter check: chunk lengths 1..MaxSeg
MaxTexts == 3           \* assembly check: at most MaxTexts segment texts
MaxTextLen == 1         \* assembly check: texts of at most MaxTextLen characters

\* ------------------------------------------------- program constants
CHUNK_LENGTH_MS == 600000   \* 10 * 60 * 1000
MAX_WAIT == 30              \* _wait_for_file_ready(max_wait=30), seconds
TICKS_PER_SECOND == 2       \* one tick = time.sleep(0.5)
STABLE_NEEDED == 3          \* if stable_count >= 3: return True
INITIAL_DELAY == 2          \* time.sleep(2), seconds
NO_SIZE == -1               \* last_size = -1

Handlers == {"h1", "h2"}    \* calls of on_created that may be in progress
NoPath == [stem |-> "", suffix |-> ""]

\* Paths of the input directory named by creation events.
PathA == [stem |-> "a", suffix |-> ".m4a"]
PathB == [stem |-> "b", suffix |-> ".M4A"]
PathX == [stem |-> "a", suffix |-> ".xyz"]
PathD == [stem |-> "sub", suffix |-> ".m4a"]
Events ==
    { [is_directory |-> FALSE, src_path |-> PathA],
      [is_directory |-> FALSE, src_path |-> PathB],
      [is_directory |-> FALSE, src_path |-> PathX],
      [is_directory |-> TRUE,  src_path |-> PathD] }

Sizes == 0..MaxSize
\* What one poll finds: no file, stat() raising, or a size.
Observations ==
    { [kind |-> "missing", size |-> 0], [kind |-> "error", size |-> 0] }
        \cup { [kind |-> "size", size |-> s] : s \in Sizes }

\* Durations (ms) a decoded recording may have: 0, 1, 2 and MaxChunks chunks.
Durations ==
    { 0, CHUNK_LENGTH_MS - 1, CHUNK_LENGTH_MS + 1,
      (MaxChunks - 1) * CHUNK_LENGTH_MS + CHUNK_LENGTH_MS \div 2 }

VARIABLES
    processing_files,   \* self.processing_files
    pc,                 \* where each call of on_created stands
    path,               \* file_path of the call
    run,                \* ordinal of the creation event the call handles
    elapsed,            \* time.time() - start_time, in ticks
    last_size,          \* last_size
    stable_count,       \* stable_count
    chunks,             \* chunks returned by convert_audio_to_chunks
    idx,                \* loop index of enumerate(chunks)
    all_transcriptions, \* all_transcriptions
    temp_files,         \* temp/temp_chunk_<k>.wav : absent or the exported chunk
    outputs,            \* files of the output directory
    sec,                \* wall-clock second, as far as output names can tell
    delivered,          \* creation events delivered so far
    outcome,            \* how the run of each call ended
    halted,             \* an exception escaped on_created
    loads,              \* whisper.load_model calls so far
    seen,               \* observed: size of the latest successful sample
    streak,             \* observed: trailing successful samples of equal size
    changing,           \* observed: every poll so far saw a new size
    attempted,          \* observed: chunk indices handed to model.transcribe
    stages,             \* observed: stages the current run has entered
    dur,                \* observed: duration of the decoded recording
    failures,           \* observed: runs that ended in an error so far
    event,              \* the event of the latest on_created call
    ledger,             \* observed: per event, the waits, attempts and saves
    should_exit,        \* should_exit
    mainpc,             \* main: loop, stop, join, exited
    observer,           \* observer: started, stopped
    stop_run,           \* observed: the run in flight at observer.stop()
    bDir,               \* batch: names in the input directory at startup
    bpc,                \* batch: start, loop, exit
    bFiles,             \* batch: m4a_files
    bPos,               \* batch: position of the for loop in m4a_files
    bStatus,            \* batch: exit status, -1 while running
    bLog,               \* batch observed: files attempted and how each ended
    bTemp,              \* batch: a temp_chunk file was left behind
    bProbes,            \* batch: what the availability probes of torch answer
    wpc,                \* readiness check: sleep2, polling, true, false
    wClock,             \* readiness check: ticks since the creation event
    wElapsed,           \* readiness check: time.time() - start_time, in ticks
    wLast,              \* readiness check: last_size
    wCount,             \* readiness check: stable_count
    wSeen,              \* readiness check observed: size of the latest sample
    wSince,             \* readiness check observed: polls since a sample differed,
                        \*   counted up to STABLE_NEEDED
    wSamples,           \* readiness check observed: successful samples so far,
                        \*   counted up to STABLE_NEEDED + 1
    wPolled,            \* readiness check observed: what the latest poll found
    sD, sM, sOut, sDone, \* splitter check: inputs, result, applied
    jTexts,             \* assembly check: all_transcriptions
    jSep,               \* assembly check: os.linesep of the platform
    jBody,              \* assembly check: full_transcription
    jFile,              \* assembly check: characters of the written file
    jRead,              \* assembly check: the body read back
    jpc                 \* assembly check: in, joined, saved, read

vars ==
    << processing_files, pc, path, run, elapsed, last_size, stable_count,
       chunks, idx, all_transcriptions, temp_files, outputs, sec, delivered,
       outcome, halted, loads, seen, streak, changing, attempted, stages, dur,
       failures, event, ledger, should_exit, mainpc, observer, stop_run,
       bDir, bpc, bFiles, bPos, bStatus, bLog, bTemp, bProbes,
       wpc, wClock, wElapsed, wLast, wCount, wSeen, wSince, wSamples, wPolled,
       sD, sM, sOut, sDone, jTexts, jSep, jBody, jFile, jRead, jpc >>

pipelineVars ==
    << processing_files, pc, path, run, elapsed, last_size, stable_count,
       chunks, idx, all_transcriptions, temp_files, outputs, sec, delivered,
       outcome, halted, loads, seen, streak, changing, attempted, stages, dur,
       failures, event, ledger, should_exit, mainpc, observer, stop_run,
       wpc, wClock, wElapsed, wLast, wCount, wSeen, wSince, wSamples, wPolled >>
waitVars == << elapsed, last_size, stable_count, seen, streak, changing >>
loopVars == << chunks, idx, all_transcriptions, attempted, dur >>
splitVars == << sD, sM, sOut, sDone >>
joinVars == << jTexts, jSep, jBody, jFile, jRead, jpc >>
mainVars == << should_exit, mainpc, observer, stop_run >>
batchVars == << bDir, bpc, bFiles, bPos, bStatus, bLog, bTemp, bProbes >>
\* What no step of on_created touches.
readyVars ==
    << wpc, wClock, wElapsed, wLast, wCount, wSeen, wSince, wSamples, wPolled >>
otherVars == << mainVars, batchVars, splitVars, joinVars, readyVars >>
otherVarsBut == << batchVars, splitVars, joinVars, readyVars >>
diskVars == << temp_files, outputs >>

NoEvent == [is_directory |-> FALSE, src_path |-> NoPath]
Runs == 1..MaxEvents
NoTally == [src |-> NoPath, waits |-> 0, attempts |-> 0, saves |-> 0, done |-> 0]
Absent == [src |-> NoPath, lo |-> 0, hi |-> 0, run |-> 0]
TempNames == 0..MaxChunks

\* ------------------------------------------------------ pure functions

Min(a, b) == IF a < b THEN a ELSE b

\* str.lower() on the suffixes that occur.
LowerIdentity(s) == s
Lower(s) == IF s = ".M4A" THEN ".m4a" ELSE s

\* range(0, duration_ms, chunk_length_ms), from i on.
RECURSIVE RangeFrom(_, _, _)
RangeFrom(i, stop, step) ==
    IF i < stop THEN <<i>> \o RangeFrom(i + step, stop, step) ELSE <<>>

\* audio[i:i + chunk_length_ms]: the slice is cut at the end of the audio.
SliceDropsRemainder(i, duration_ms, chunk_length_ms) ==
    << i, i + chunk_length_ms >>
Slice(i, duration_ms, chunk_length_ms) ==
    << i, Min(i + chunk_length_ms, duration_ms) >>

\* convert_audio_to_chunks: the chunks as <<start, end>> in ms.
ConvertSkipsShortTail(duration_ms, chunk_length_ms) ==
    LET starts == RangeFrom(0, duration_ms - chunk_length_ms + 1, chunk_length_ms)
    IN [k \in 1..Len(starts) |-> Slice(starts[k], duration_ms, chunk_length_ms)]
ConvertPadsEmpty(duration_ms, chunk_length_ms) ==
    LET starts == RangeFrom(0, duration_ms, chunk_length_ms)
    IN IF duration_ms = 0 THEN << << 0, 0 >> >>
       ELSE [k \in 1..Len(starts) |-> Slice(starts[k], duration_ms, chunk_length_ms)]
ConvertAudioToChunks(duration_ms, chunk_length_ms) ==
    LET starts == RangeFrom(0, duration_ms, chunk_length_ms)
    IN [k \in 1..Len(starts) |-> Slice(starts[k], duration_ms, chunk_length_ms)]

\* result["text"] of model.transcribe on an exported chunk: a function of the
\* audio in the file; the second chunk of a recording is silent.
Letter(p) == p.stem
Digit(k) == IF k = 0 THEN "0" ELSE IF k = 1 THEN "1" ELSE IF k = 2 THEN "2" ELSE "3"
WhisperText(c) ==
    IF c.lo = CHUNK_LENGTH_MS THEN <<>>
    ELSE << Letter(c.src), Digit(c.lo \div CHUNK_LENGTH_MS) >>

\* "\n".join(all_transcriptions)
RECURSIVE JoinNoSeparator(_)
JoinNoSeparator(texts) ==
    IF texts = <<>> THEN <<>>
    ELSE Head(texts) \o JoinNoSeparator(Tail(texts))

RECURSIVE Join(_)
Join(texts) ==
    IF texts = <<>> THEN <<>>
    ELSE IF Len(texts) = 1 THEN Head(texts)
    ELSE Head(texts) \o <<"\n">> \o Join(Tail(texts))

\* open(output_path, "w", encoding="utf-8"), line 285: text mode writes
\* os.linesep for every "\n" and every other character as it is.
Lineseps == { <<"\n">>, <<"\r", "\n">> }
RECURSIVE Encode(_, _)
Encode(text, linesep) ==
    IF text = <<>> THEN <<>>
    ELSE (IF Head(text) = "\n" THEN linesep ELSE << Head(text) >>)
             \o Encode(Tail(text), linesep)

\* save_transcription, lines 287-290: title line, source line, creation
\* line, empty line, rule of 60 "=", empty line.  The title, the two
\* labels, the time and the rule are one element each.
Header(original_filename) ==
    << "# title", "\n", "source: ", original_filename, "\n",
       "created: ", "time", "\n", "\n", "rule", "\n", "\n" >>

FileContentEndsLine(original_filename, text, linesep) ==
    Encode(Header(original_filename) \o text \o << "\n" >>, linesep)

\* save_transcription, lines 285-293: the header, then f.write(text).
FileContent(original_filename, text, linesep) ==
    Encode(Header(original_filename) \o text, linesep)

\* ------------------------------------------------------------ helpers

\* on_created, lines 337-350: the three early returns.
Accepts(ev, files) ==
    /\ ~ev.is_directory
    /\ Lower(ev.src_path.suffix) = ".m4a"
    /\ ev.src_path \notin files

\* if time.time() - start_time > max_wait
TimedOutNever(t) == FALSE
TimedOutLate(t) == t > (MAX_WAIT + 1) * TICKS_PER_SECOND
TimedOut(t) == t > MAX_WAIT * TICKS_PER_SECOND

\* lines 401-409: the new << stable_count, last_size >> after a sample.
SampleNoReset(count, last, current_size) ==
    IF current_size = last THEN << count + 1, last >> ELSE << count, current_size >>
SampleCountsBaseline(count, last, current_size) ==
    IF current_size = last THEN << count + 1, last >>
    ELSE IF last = NO_SIZE THEN << 1, current_size >>
    ELSE << 0, current_size >>
Sample(count, last, current_size) ==
    IF current_size = last THEN << count + 1, last >> ELSE << 0, current_size >>

\* One pass of the while loop: << stable_count, last_size >> after it.  When
\* the file is not there, or stat() raises, the pass only sleeps.
AfterPollResetsOnError(count, last, obs) ==
    IF obs.kind = "size" THEN Sample(count, last, obs.size) ELSE << 0, last >>
AfterPoll(count, last, obs) ==
    IF obs.kind = "size" THEN Sample(count, last, obs.size) ELSE << count, last >>

IsReadyOnFirstRepeat(count, last, current_size) == current_size = last

\* if stable_count >= 3: return True (reached only in the equal-size branch)
IsReady(count, last, current_size) ==
    current_size = last /\ Sample(count, last, current_size)[1] >= STABLE_NEEDED

\* except Exception as e (line 451): every failure modelled is an Exception.
ExceptionKinds ==
    { "load_error", "decode_error", "recognition_error", "temp_missing",
      "persistence_error" }
Catches(kind) == kind \in ExceptionKinds

\* chunk.export(str(temp_file), format="wav") writes the file anew.
ExportKeepsExisting(files, k, c) ==
    IF files[k] # Absent THEN files ELSE [files EXCEPT ![k] = c]
Export(files, k, c) == [files EXCEPT ![k] = c]

\* temp_file.unlink()
UnlinkNothing(files, k) == files
UnlinkPrevious(files, k) ==
    IF k = 0 THEN files ELSE [files EXCEPT ![k - 1] = Absent]
Unlink(files, k) == [files EXCEPT ![k] = Absent]

\* self.processing_files.add / discard
Add(files, p) == files \cup {p}
DiscardNothing(files, p) == files
Discard(files, p) == files \ {p}

\* open(output_path, "w"): a file of that name is replaced.
OutputNameNoTimestamp(p, second) == [stem |-> p.stem, ts |-> 0]
OutputName(p, second) == [stem |-> p.stem, ts |-> second]
WriteFile(dir, name, body, complete, r) ==
    { o \in dir : o.name # name }
        \cup { [name |-> name, body |-> body, complete |-> complete, run |-> r] }

RaiseRetries(h, kind) ==
    /\ pc' = [pc EXCEPT ![h] = "process"]
    /\ outcome' = [outcome EXCEPT ![h] = kind]
    /\ failures' = failures + 1

\* A call leaves the try block with an exception of this kind.
Raise(h, kind) ==
    /\ pc' = [pc EXCEPT ![h] = "finally"]
    /\ outcome' = [outcome EXCEPT ![h] = kind]
    /\ failures' = failures + 1

\* The locals of _wait_for_file_ready end with the call.
LeaveWait(h) ==
    /\ elapsed' = [elapsed EXCEPT ![h] = 0]
    /\ last_size' = [last_size EXCEPT ![h] = NO_SIZE]
    /\ stable_count' = [stable_count EXCEPT ![h] = 0]
    /\ seen' = [seen EXCEPT ![h] = NO_SIZE]
    /\ streak' = [streak EXCEPT ![h] = 0]
    /\ changing' = [changing EXCEPT ![h] = FALSE]

Enter(h, stage) == stages' = [stages EXCEPT ![h] = @ \cup {stage}]
\* One more call of _wait_for_file_ready or _process_audio_file for the
\* event the call h handles.
Tally(h, what) == ledger' = [ledger EXCEPT ![run[h]][what] = @ + 1]

\* --------------------------------------------------------------- Init

InitPipeline ==
    /\ processing_files = {}
    /\ pc = [h \in Handlers |-> "idle"]
    /\ path = [h \in Handlers |-> NoPath]
    /\ run = [h \in Handlers |-> 0]
    /\ elapsed = [h \in Handlers |-> 0]
    /\ last_size = [h \in Handlers |-> NO_SIZE]
    /\ stable_count = [h \in Handlers |-> 0]
    /\ chunks = [h \in Handlers |-> <<>>]
    /\ idx = [h \in Handlers |-> 0]
    /\ all_transcriptions = [h \in Handlers |-> <<>>]
    /\ temp_files = [k \in TempNames |-> Absent]
    /\ outputs = {}
    /\ sec = 0
    /\ delivered = 0
    /\ outcome = [h \in Handlers |-> "none"]
    /\ halted = FALSE
    /\ loads = 0
    /\ seen = [h \in Handlers |-> NO_SIZE]
    /\ streak = [h \in Handlers |-> 0]
    /\ changing = [h \in Handlers |-> FALSE]
    /\ attempted = [h \in Handlers |-> <<>>]
    /\ stages = [h \in Handlers |-> {}]
    /\ dur = [h \in Handlers |-> 0]
    /\ failures = 0
    /\ event = NoEvent
    /\ ledger = [r \in Runs |-> NoTally]
    /\ should_exit = FALSE
    /\ mainpc = "loop"
    /\ observer = "started"
    /\ stop_run = 0

InitReadyIdle ==
    /\ wpc = "idle" /\ wClock = 0 /\ wElapsed = 0 /\ wLast = NO_SIZE /\ wCount = 0
    /\ wSeen = NO_SIZE /\ wSince = 0 /\ wSamples = 0 /\ wPolled = "none"

InitSplitIdle == sD = 0 /\ sM = 1 /\ sOut = <<>> /\ sDone = FALSE
InitBatchIdle ==
    /\ bDir = {} /\ bpc = "start" /\ bFiles = <<>> /\ bPos = 0
    /\ bStatus = -1 /\ bLog = <<>> /\ bTemp = FALSE
    /\ bProbes = [mps |-> FALSE, cuda |-> FALSE]
InitJoinIdle ==
    /\ jTexts = <<>> /\ jSep = <<"\n">> /\ jBody = <<>> /\ jFile = <<>>
    /\ jRead = <<>> /\ jpc = "in"

Init ==
    /\ InitPipeline
    /\ InitReadyIdle
    /\ InitBatchIdle
    /\ InitSplitIdle
    /\ InitJoinIdle

\* ------------------------------------------------------------ actions

\* on_created up to time.sleep(2): filter, duplicate check.
OnCreated(h, ev) ==
    /\ pc[h] = "idle"
    /\ ~halted
    /\ observer = "started"
    /\ delivered < MaxEvents
    /\ delivered' = delivered + 1
    /\ event' = ev
    /\ IF Accepts(ev, processing_files)
       THEN /\ pc' = [pc EXCEPT ![h] = "sleep2"]
            /\ path' = [path EXCEPT ![h] = ev.src_path]
            /\ run' = [run EXCEPT ![h] = delivered + 1]
            /\ ledger' = [ledger EXCEPT ![delivered + 1].src = ev.src_path]
       ELSE UNCHANGED << pc, path, run, ledger >>
    /\ UNCHANGED << processing_files, waitVars, loopVars, diskVars, sec, outcome,
                    halted, loads, stages, failures, otherVars >>

\* time.sleep(2), then the first lines of _wait_for_file_ready.
InitialDelay(h) ==
    /\ pc[h] = "sleep2"
    /\ pc' = [pc EXCEPT ![h] = "wait"]
    /\ elapsed' = [elapsed EXCEPT ![h] = 0]
    /\ last_size' = [last_size EXCEPT ![h] = NO_SIZE]
    /\ stable_count' = [stable_count EXCEPT ![h] = 0]
    /\ seen' = [seen EXCEPT ![h] = NO_SIZE]
    /\ streak' = [streak EXCEPT ![h] = 0]
    /\ changing' = [changing EXCEPT ![h] = TRUE]
    /\ sec' = IF \E o \in outputs : o.name.ts = sec THEN sec + 1 ELSE sec
    /\ Enter(h, "wait")
    /\ Tally(h, "waits")
    /\ UNCHANGED << processing_files, path, run, loopVars, diskVars, delivered,
                    outcome, halted, loads, failures, event, otherVars >>

\* One iteration of the while True loop of _wait_for_file_ready; obs is what
\* file_path.exists() / file_path.stat() find.
Poll(h, obs) ==
    /\ pc[h] = "wait"
    /\ IF TimedOut(elapsed[h])
       THEN \* return False; on_created prints and returns
            /\ pc' = [pc EXCEPT ![h] = "returned"]
            /\ outcome' = [outcome EXCEPT ![h] = "timeout"]
            /\ failures' = failures + 1
            /\ UNCHANGED waitVars
       ELSE /\ UNCHANGED << outcome, failures >>
            /\ changing' = [changing EXCEPT ![h] =
                                @ /\ obs.kind = "size" /\ obs.size # seen[h]]
            /\ stable_count' = [stable_count EXCEPT ![h] =
                                    AfterPoll(@, last_size[h], obs)[1]]
            /\ last_size' = [last_size EXCEPT ![h] =
                                    AfterPoll(stable_count[h], @, obs)[2]]
            /\ IF obs.kind # "size"
               THEN \* not there, or stat() raised: sleep and poll again
                    /\ elapsed' = [elapsed EXCEPT ![h] = @ + 1]
                    /\ UNCHANGED << pc, seen, streak >>
               ELSE /\ seen' = [seen EXCEPT ![h] = obs.size]
                    /\ streak' = [streak EXCEPT ![h] =
                                      IF obs.size = seen[h] THEN @ + 1 ELSE 0]
                    /\ IF IsReady(stable_count[h], last_size[h], obs.size)
                       THEN /\ pc' = [pc EXCEPT ![h] = "process"]
                            /\ UNCHANGED elapsed
                       ELSE /\ elapsed' = [elapsed EXCEPT ![h] = @ + 1]
                            /\ UNCHANGED pc
    /\ UNCHANGED << processing_files, path, run, loopVars, diskVars, sec, delivered,
                    halted, loads, stages, event, ledger, otherVars >>

\* _process_audio_file, line 426.
Process(h) ==
    /\ pc[h] = "process"
    /\ processing_files' = Add(processing_files, path[h])
    /\ pc' = [pc EXCEPT ![h] = "load"]
    /\ Enter(h, "add")
    /\ LeaveWait(h)
    /\ Tally(h, "attempts")
    /\ UNCHANGED << path, run, loopVars, diskVars, sec, delivered, outcome,
                    halted, loads, failures, event, otherVars >>

\* transcribe_audio, lines 148-165: device choice and whisper.load_model.
LoadModel(h, ok) ==
    /\ pc[h] = "load"
    /\ loads' = loads + 1
    /\ Enter(h, "load")
    /\ IF ok
       THEN /\ pc' = [pc EXCEPT ![h] = "chunks"]
            /\ UNCHANGED << outcome, failures >>
       ELSE Raise(h, "load_error")
    /\ UNCHANGED << processing_files, path, run, waitVars, loopVars, diskVars, sec,
                    delivered, halted, event, ledger, otherVars >>

\* convert_audio_to_chunks and temp_dir.mkdir(exist_ok=True); d is the
\* duration of the decoded audio, ok whether AudioSegment.from_file decoded.
Convert(h, ok, d) ==
    /\ pc[h] = "chunks"
    /\ Enter(h, "split")
    /\ IF ok
       THEN /\ chunks' = [chunks EXCEPT ![h] =
                 LET cs == ConvertAudioToChunks(d, CHUNK_LENGTH_MS)
                 IN [k \in 1..Len(cs) |->
                        [src |-> path[h], lo |-> cs[k][1], hi |-> cs[k][2],
                         run |-> run[h]]]]
            /\ dur' = [dur EXCEPT ![h] = d]
            /\ pc' = [pc EXCEPT ![h] = "loop"]
            /\ UNCHANGED << outcome, failures >>
       ELSE /\ Raise(h, "decode_error")
            /\ UNCHANGED << chunks, dur >>
    /\ UNCHANGED << processing_files, path, run, waitVars, idx, all_transcriptions,
                    attempted, diskVars, sec, delivered, halted, loads, event, ledger, otherVars >>

LoopStepSavesEarly(h) ==
    /\ pc[h] = "loop"
    /\ IF idx[h] < Len(chunks[h]) /\ idx[h] = 0
       THEN /\ temp_files' = Export(temp_files, idx[h], chunks[h][idx[h] + 1])
            /\ pc' = [pc EXCEPT ![h] = "transcribe"]
       ELSE /\ pc' = [pc EXCEPT ![h] = "save"]
            /\ UNCHANGED temp_files
    /\ UNCHANGED << processing_files, path, run, waitVars, loopVars, outputs, sec,
                    delivered, outcome, halted, loads, stages, failures, event,
                    ledger, otherVars >>

\* The head of "for idx, chunk in enumerate(chunks)" with chunk.export, or the
\* end of the loop: temp_dir.rmdir() (its failure is swallowed) and the join.
LoopStep(h) ==
    /\ pc[h] = "loop"
    /\ IF idx[h] < Len(chunks[h])
       THEN /\ temp_files' = Export(temp_files, idx[h], chunks[h][idx[h] + 1])
            /\ pc' = [pc EXCEPT ![h] = "transcribe"]
       ELSE /\ pc' = [pc EXCEPT ![h] = "save"]
            /\ UNCHANGED temp_files
    /\ UNCHANGED << processing_files, path, run, waitVars, loopVars, outputs, sec,
                    delivered, outcome, halted, loads, stages, failures, event, ledger, otherVars >>

\* model.transcribe(str(temp_file), ...) and all_transcriptions.append.
Transcribe(h, ok) ==
    /\ pc[h] = "transcribe"
    /\ attempted' = [attempted EXCEPT ![h] = Append(@, idx[h])]
    /\ Enter(h, "recognize")
    /\ IF temp_files[idx[h]] = Absent
       THEN /\ Raise(h, "temp_missing")
            /\ UNCHANGED all_transcriptions
       ELSE IF ~ok
       THEN /\ Raise(h, "recognition_error")
            /\ UNCHANGED all_transcriptions
       ELSE /\ all_transcriptions' = [all_transcriptions EXCEPT ![h] =
                                        Append(@, WhisperText(temp_files[idx[h]]))]
            /\ pc' = [pc EXCEPT ![h] = "unlink"]
            /\ UNCHANGED << outcome, failures >>
    /\ UNCHANGED << processing_files, path, run, waitVars, chunks, idx, dur, diskVars,
                    sec, delivered, halted, loads, event, ledger, otherVars >>

\* temp_file.unlink() and the end of the loop body.
UnlinkTemp(h) ==
    /\ pc[h] = "unlink"
    /\ IF temp_files[idx[h]] = Absent
       THEN /\ Raise(h, "temp_missing")
            /\ UNCHANGED << temp_files, idx >>
       ELSE /\ temp_files' = Unlink(temp_files, idx[h])
            /\ idx' = [idx EXCEPT ![h] = @ + 1]
            /\ pc' = [pc EXCEPT ![h] = "loop"]
            /\ UNCHANGED << outcome, failures >>
    /\ UNCHANGED << processing_files, path, run, waitVars, chunks, all_transcriptions,
                    attempted, dur, outputs, sec, delivered, halted, loads, stages,
                    event, ledger, otherVars >>

\* save_transcription: open(output_path, "w") may fail, and so may a write
\* after the file was created.
SaveResults == {"ok", "open_fails", "write_fails"}
Save(h, res) ==
    /\ pc[h] = "save"
    /\ Enter(h, "save")
    /\ ledger' = [ledger EXCEPT ![run[h]].saves = @ + 1,
                                ![run[h]].done = IF res = "ok" THEN @ + 1 ELSE @]
    /\ IF res = "open_fails"
       THEN /\ Raise(h, "persistence_error")
            /\ UNCHANGED outputs
       ELSE IF res = "write_fails"
       THEN /\ outputs' = WriteFile(outputs, OutputName(path[h], sec), <<>>, FALSE, run[h])
            /\ Raise(h, "persistence_error")
       ELSE /\ outputs' = WriteFile(outputs, OutputName(path[h], sec),
                                    Join(all_transcriptions[h]), TRUE, run[h])
            /\ pc' = [pc EXCEPT ![h] = "finally"]
            /\ outcome' = [outcome EXCEPT ![h] = "done"]
            /\ UNCHANGED failures
    /\ UNCHANGED << processing_files, path, run, waitVars, loopVars, temp_files, sec,
                    delivered, halted, loads, event, otherVars >>

FinallyForgetsDiscard(h) ==
    /\ pc[h] = "finally"
    /\ IF outcome[h] = "done" \/ Catches(outcome[h])
       THEN /\ pc' = [pc EXCEPT ![h] = "returned"]
            /\ UNCHANGED halted
       ELSE /\ pc' = [pc EXCEPT ![h] = "idle"]
            /\ halted' = TRUE
    /\ UNCHANGED << processing_files, path, run, waitVars, loopVars, diskVars, sec,
                    delivered, outcome, loads, stages, failures, event, ledger,
                    otherVars >>

\* except Exception (prints only) and finally: processing_files.discard.
Finally(h) ==
    /\ pc[h] = "finally"
    /\ processing_files' = Discard(processing_files, path[h])
    /\ IF outcome[h] = "done" \/ Catches(outcome[h])
       THEN /\ pc' = [pc EXCEPT ![h] = "returned"]
            /\ UNCHANGED halted
       ELSE /\ pc' = [pc EXCEPT ![h] = "idle"]
            /\ halted' = TRUE
    /\ UNCHANGED << path, run, waitVars, loopVars, diskVars, sec, delivered, outcome,
                    loads, stages, failures, event, ledger, otherVars >>

\* on_created returns to the observer, which delivers the next event.
Return(h) ==
    /\ pc[h] = "returned"
    /\ pc' = [pc EXCEPT ![h] = "idle"]
    /\ path' = [path EXCEPT ![h] = NoPath]
    /\ run' = [run EXCEPT ![h] = 0]
    /\ LeaveWait(h)
    /\ chunks' = [chunks EXCEPT ![h] = <<>>]
    /\ idx' = [idx EXCEPT ![h] = 0]
    /\ all_transcriptions' = [all_transcriptions EXCEPT ![h] = <<>>]
    /\ attempted' = [attempted EXCEPT ![h] = <<>>]
    /\ dur' = [dur EXCEPT ![h] = 0]
    /\ outcome' = [outcome EXCEPT ![h] = "none"]
    /\ stages' = [stages EXCEPT ![h] = {}]
    /\ UNCHANGED << processing_files, diskVars, sec, delivered, halted, loads,
                    failures, event, ledger, otherVars >>

\* ----------------------------------------------------- specifications

\* One step of the call h of on_created; polls observe a member of obsSet.
Step(h, obsSet) ==
    \/ \E ev \in Events : OnCreated(h, ev)
    \/ InitialDelay(h)
    \/ \E obs \in obsSet : Poll(h, obs)
    \/ Process(h)
    \/ \E ok \in BOOLEAN : LoadModel(h, ok)
    \/ \E ok \in BOOLEAN, d \in Durations : Convert(h, ok, d)
    \/ LoopStep(h)
    \/ \E ok \in BOOLEAN : Transcribe(h, ok)
    \/ UnlinkTemp(h)
    \/ \E res \in SaveResults : Save(h, res)
    \/ Finally(h)
    \/ Return(h)

\* The observer thread delivers events one at a time: one call of on_created
\* is in progress at any time (observer.schedule / observer.start in main).
Next == Step("h1", Observations)

Spec == Init /\ [][Next]_vars

\* Two calls of on_created on the same handler object overlap (a second
\* dispatching thread, or a re-entrant call); the files they poll are stable.
StableObservations == { [kind |-> "size", size |-> 0] }
NextOverlap == \E h \in Handlers : Step(h, StableObservations)

SpecOverlap == Init /\ [][NextOverlap]_vars

\* ------------------------------------------ the watcher of monitor.py

\* monitor.py holds the handler class and main, and imports transcribe_audio,
\* save_transcription and setup_directories from transcribe.py (line 30).
\* The definitions below are that code over the same variables.

\* monitor.py, on_created, lines 97-110: the three early returns.
MonAccepts(ev, files) ==
    /\ ~ev.is_directory
    /\ Lower(ev.src_path.suffix) = ".m4a"
    /\ ev.src_path \notin files

\* monitor.py, line 148: if time.time() - start_time > max_wait
MonTimedOut(t) == t > MAX_WAIT * TICKS_PER_SECOND

\* monitor.py, lines 161-169: << stable_count, last_size >> after a sample.
MonSample(count, last, current_size) ==
    IF current_size = last THEN << count + 1, last >> ELSE << 0, current_size >>

\* monitor.py, lines 146-176: one pass of the while loop.
MonAfterPoll(count, last, obs) ==
    IF obs.kind = "size" THEN MonSample(count, last, obs.size) ELSE << count, last >>

MonIsReadyAtTwo(count, last, current_size) ==
    current_size = last /\ MonSample(count, last, current_size)[1] >= STABLE_NEEDED - 1

\* monitor.py, line 164: if stable_count >= 3: return True
MonIsReady(count, last, current_size) ==
    current_size = last /\ MonSample(count, last, current_size)[1] >= STABLE_NEEDED

\* transcribe.py, convert_audio_to_chunks, lines 100-104.
MonConvertAudioToChunks(duration_ms, chunk_length_ms) ==
    LET starts == RangeFrom(0, duration_ms, chunk_length_ms)
    IN [k \in 1..Len(starts) |-> Slice(starts[k], duration_ms, chunk_length_ms)]

\* transcribe.py, save_transcription, lines 266-271.
MonOutputName(p, second) == [stem |-> p.stem, ts |-> second]

\* monitor.py, line 211: except Exception as e
MonCatches(kind) == kind \in ExceptionKinds

\* monitor.py, on_created up to time.sleep(2), lines 84-116.
MonOnCreated(h, ev) ==
    /\ pc[h] = "idle"
    /\ ~halted
    /\ observer = "started"
    /\ delivered < MaxEvents
    /\ delivered' = delivered + 1
    /\ event' = ev
    /\ IF MonAccepts(ev, processing_files)
       THEN /\ pc' = [pc EXCEPT ![h] = "sleep2"]
            /\ path' = [path EXCEPT ![h] = ev.src_path]
            /\ run' = [run EXCEPT ![h] = delivered + 1]
            /\ ledger' = [ledger EXCEPT ![delivered + 1].src = ev.src_path]
       ELSE UNCHANGED << pc, path, run, ledger >>
    /\ UNCHANGED << processing_files, waitVars, loopVars, diskVars, sec, outcome,
                    halted, loads, stages, failures, otherVars >>

\* monitor.py, time.sleep(2) and lines 142-144 of _wait_for_file_ready.
MonInitialDelay(h) ==
    /\ pc[h] = "sleep2"
    /\ pc' = [pc EXCEPT ![h] = "wait"]
    /\ elapsed' = [elapsed EXCEPT ![h] = 0]
    /\ last_size' = [last_size EXCEPT ![h] = NO_SIZE]
    /\ stable_count' = [stable_count EXCEPT ![h] = 0]
    /\ seen' = [seen EXCEPT ![h] = NO_SIZE]
    /\ streak' = [streak EXCEPT ![h] = 0]
    /\ changing' = [changing EXCEPT ![h] = TRUE]
    /\ sec' = IF \E o \in outputs : o.name.ts = sec THEN sec + 1 ELSE sec
    /\ Enter(h, "wait")
    /\ Tally(h, "waits")
    /\ UNCHANGED << processing_files, path, run, loopVars, diskVars, delivered,
                    outcome, halted, loads, failures, event, otherVars >>

\* monitor.py, one iteration of the while True loop, lines 146-176.
MonPoll(h, obs) ==
    /\ pc[h] = "wait"
    /\ IF MonTimedOut(elapsed[h])
       THEN \* return False; on_created prints and returns
            /\ pc' = [pc EXCEPT ![h] = "returned"]
            /\ outcome' = [outcome EXCEPT ![h] = "timeout"]
            /\ failures' = failures + 1
            /\ UNCHANGED waitVars
       ELSE /\ UNCHANGED << outcome, failures >>
            /\ changing' = [changing EXCEPT ![h] =
                                @ /\ obs.kind = "size" /\ obs.size # seen[h]]
            /\ stable_count' = [stable_count EXCEPT ![h] =
                                    MonAfterPoll(@, last_size[h], obs)[1]]
            /\ last_size' = [last_size EXCEPT ![h] =
                                    MonAfterPoll(stable_count[h], @, obs)[2]]
            /\ IF obs.kind # "size"
               THEN \* not there, or stat() raised: sleep and poll again
                    /\ elapsed' = [elapsed EXCEPT ![h] = @ + 1]
                    /\ UNCHANGED << pc, seen, streak >>
               ELSE /\ seen' = [seen EXCEPT ![h] = obs.size]
                    /\ streak' = [streak EXCEPT ![h] =
                                      IF obs.size = seen[h] THEN @ + 1 ELSE 0]
                    /\ IF MonIsReady(stable_count[h], last_size[h], obs.size)
                       THEN /\ pc' = [pc EXCEPT ![h] = "process"]
                            /\ UNCHANGED elapsed
                       ELSE /\ elapsed' = [elapsed EXCEPT ![h] = @ + 1]
                            /\ UNCHANGED pc
    /\ UNCHANGED << processing_files, path, run, loopVars, diskVars, sec, delivered,
                    halted, loads, stages, event, ledger, otherVars >>

\* monitor.py, _process_audio_file, line 186.
MonProcess(h) ==
    /\ pc[h] = "process"
    /\ processing_files' = Add(processing_files, path[h])
    /\ pc' = [pc EXCEPT ![h] = "load"]
    /\ Enter(h, "add")
    /\ LeaveWait(h)
    /\ Tally(h, "attempts")
    /\ UNCHANGED << path, run, loopVars, diskVars, sec, delivered, outcome,
                    halted, loads, failures, event, otherVars >>

\* transcribe.py, transcribe_audio, lines 142-159.
MonLoadModel(h, ok) ==
    /\ pc[h] = "load"
    /\ loads' = loads + 1
    /\ Enter(h, "load")
    /\ IF ok
       THEN /\ pc' = [pc EXCEPT ![h] = "chunks"]
            /\ UNCHANGED << outcome, failures >>
       ELSE Raise(h, "load_error")
    /\ UNCHANGED << processing_files, path, run, waitVars, loopVars, diskVars, sec,
                    delivered, halted, event, ledger, otherVars >>

\* transcribe.py, lines 165-174: convert_audio_to_chunks and temp_dir.mkdir.
MonConvert(h, ok, d) ==
    /\ pc[h] = "chunks"
    /\ Enter(h, "split")
    /\ IF ok
       THEN /\ chunks' = [chunks EXCEPT ![h] =
                 LET cs == MonConvertAudioToChunks(d, CHUNK_LENGTH_MS)
                 IN [k \in 1..Len(cs) |->
                        [src |-> path[h], lo |-> cs[k][1], hi |-> cs[k][2],
                         run |-> run[h]]]]
            /\ dur' = [dur EXCEPT ![h] = d]
            /\ pc' = [pc EXCEPT ![h] = "loop"]
            /\ UNCHANGED << outcome, failures >>
       ELSE /\ Raise(h, "decode_error")
            /\ UNCHANGED << chunks, dur >>
    /\ UNCHANGED << processing_files, path, run, waitVars, idx, all_transcriptions,
                    attempted, diskVars, sec, delivered, halted, loads, event, ledger, otherVars >>

\* transcribe.py, lines 184-191 and 221-231: the head of the loop with
\* chunk.export, or its end with temp_dir.rmdir() and the join.
MonLoopStep(h) ==
    /\ pc[h] = "loop"
    /\ IF idx[h] < Len(chunks[h])
       THEN /\ temp_files' = Export(temp_files, idx[h], chunks[h][idx[h] + 1])
            /\ pc' = [pc EXCEPT ![h] = "transcribe"]
       ELSE /\ pc' = [pc EXCEPT ![h] = "save"]
            /\ UNCHANGED temp_files
    /\ UNCHANGED << processing_files, path, run, waitVars, loopVars, outputs, sec,
                    delivered, outcome, halted, loads, stages, failures, event, ledger, otherVars >>

\* transcribe.py, lines 196-204: model.transcribe and the append.
MonTranscribe(h, ok) ==
    /\ pc[h] = "transcribe"
    /\ attempted' = [attempted EXCEPT ![h] = Append(@, idx[h])]
    /\ Enter(h, "recognize")
    /\ IF temp_files[idx[h]] = Absent
       THEN /\ Raise(h, "temp_missing")
            /\ UNCHANGED all_transcriptions
       ELSE IF ~ok
       THEN /\ Raise(h, "recognition_error")
            /\ UNCHANGED all_transcriptions
       ELSE /\ all_transcriptions' = [all_transcriptions EXCEPT ![h] =
                                        Append(@, WhisperText(temp_files[idx[h]]))]
            /\ pc' = [pc EXCEPT ![h] = "unlink"]
            /\ UNCHANGED << outcome, failures >>
    /\ UNCHANGED << processing_files, path, run, waitVars, chunks, idx, dur, diskVars,
                    sec, delivered, halted, loads, event, ledger, otherVars >>

\* transcribe.py, line 209: temp_file.unlink().
MonUnlinkTemp(h) ==
    /\ pc[h] = "unlink"
    /\ IF temp_files[idx[h]] = Absent
       THEN /\ Raise(h, "temp_missing")
            /\ UNCHANGED << temp_files, idx >>
       ELSE /\ temp_files' = Unlink(temp_files, idx[h])
            /\ idx' = [idx EXCEPT ![h] = @ + 1]
            /\ pc' = [pc EXCEPT ![h] = "loop"]
            /\ UNCHANGED << outcome, failures >>
    /\ UNCHANGED << processing_files, path, run, waitVars, chunks, all_transcriptions,
                    attempted, dur, outputs, sec, delivered, halted, loads, stages,
                    event, ledger, otherVars >>

\* transcribe.py, save_transcription, lines 266-289, called at monitor.py
\* line 202.
MonSave(h, res) ==
    /\ pc[h] = "save"
    /\ Enter(h, "save")
    /\ ledger' = [ledger EXCEPT ![run[h]].saves = @ + 1,
                                ![run[h]].done = IF res = "ok" THEN @ + 1 ELSE @]
    /\ IF res = "open_fails"
       THEN /\ Raise(h, "persistence_error")
            /\ UNCHANGED outputs
       ELSE IF res = "write_fails"
       THEN /\ outputs' = WriteFile(outputs, MonOutputName(path[h], sec), <<>>, FALSE, run[h])
            /\ Raise(h, "persistence_error")
       ELSE /\ outputs' = WriteFile(outputs, MonOutputName(path[h], sec),
                                    Join(all_transcriptions[h]), TRUE, run[h])
            /\ pc' = [pc EXCEPT ![h] = "finally"]
            /\ outcome' = [outcome EXCEPT ![h] = "done"]
            /\ UNCHANGED failures
    /\ UNCHANGED << processing_files, path, run, waitVars, loopVars, temp_files, sec,
                    delivered, halted, loads, event, otherVars >>

\* monitor.py, lines 211-223: except Exception and finally.
MonFinally(h) ==
    /\ pc[h] = "finally"
    /\ processing_files' = Discard(processing_files, path[h])
    /\ IF outcome[h] = "done" \/ MonCatches(outcome[h])
       THEN /\ pc' = [pc EXCEPT ![h] = "returned"]
            /\ UNCHANGED halted
       ELSE /\ pc' = [pc EXCEPT ![h] = "idle"]
            /\ halted' = TRUE
    /\ UNCHANGED << path, run, waitVars, loopVars, diskVars, sec, delivered, outcome,
                    loads, stages, failures, event, ledger, otherVars >>

\* monitor.py: on_created returns to the observer.
MonReturn(h) ==
    /\ pc[h] = "returned"
    /\ pc' = [pc EXCEPT ![h] = "idle"]
    /\ path' = [path EXCEPT ![h] = NoPath]
    /\ run' = [run EXCEPT ![h] = 0]
    /\ LeaveWait(h)
    /\ chunks' = [chunks EXCEPT ![h] = <<>>]
    /\ idx' = [idx EXCEPT ![h] = 0]
    /\ all_transcriptions' = [all_transcriptions EXCEPT ![h] = <<>>]
    /\ attempted' = [attempted EXCEPT ![h] = <<>>]
    /\ dur' = [dur EXCEPT ![h] = 0]
    /\ outcome' = [outcome EXCEPT ![h] = "none"]
    /\ stages' = [stages EXCEPT ![h] = {}]
    /\ UNCHANGED << processing_files, diskVars, sec, delivered, halted, loads,
                    failures, event, ledger, otherVars >>

\* One step of a call of on_created of monitor.py.
MonStep(h, obsSet) ==
    \/ \E ev \in Events : MonOnCreated(h, ev)
    \/ MonInitialDelay(h)
    \/ \E obs \in obsSet : MonPoll(h, obs)
    \/ MonProcess(h)
    \/ \E ok \in BOOLEAN : MonLoadModel(h, ok)
    \/ \E ok \in BOOLEAN, d \in Durations : MonConvert(h, ok, d)
    \/ MonLoopStep(h)
    \/ \E ok \in BOOLEAN : MonTranscribe(h, ok)
    \/ MonUnlinkTemp(h)
    \/ \E res \in SaveResults : MonSave(h, res)
    \/ MonFinally(h)
    \/ MonReturn(h)

NextMonitor == MonStep("h1", Observations)

SpecMonitor == Init /\ [][NextMonitor]_vars

\* The splitter alone, applied to every duration and chunk length in bounds.
SplitInputs ==
    { << d, m >> : d \in 0..MaxDur, m \in 1..MaxSeg }
        \cup { << d, CHUNK_LENGTH_MS >> : d \in Durations }
InitSplit ==
    /\ InitPipeline
    /\ InitReadyIdle
    /\ InitBatchIdle
    /\ InitJoinIdle
    /\ \E in \in SplitInputs : sD = in[1] /\ sM = in[2]
    /\ sOut = <<>>
    /\ sDone = FALSE

SplitApply ==
    /\ ~sDone
    /\ sOut' = ConvertAudioToChunks(sD, sM)
    /\ sDone' = TRUE
    /\ UNCHANGED << pipelineVars, batchVars, sD, sM, joinVars >>

SpecSplit == InitSplit /\ [][SplitApply]_vars

watchVars ==
    << processing_files, pc, path, run, elapsed, last_size, stable_count,
       chunks, idx, all_transcriptions, temp_files, outputs, sec, delivered,
       outcome, halted, loads, seen, streak, changing, attempted, stages, dur,
       failures, event, ledger >>

\* ------------------------------------------------ readiness check
\* on_created from time.sleep(2) to the return of _wait_for_file_ready,
\* for one accepted event, with the clock since the event.

InitReady ==
    /\ InitPipeline
    /\ InitBatchIdle
    /\ InitSplitIdle
    /\ InitJoinIdle
    /\ wpc = "sleep2" /\ wClock = 0 /\ wElapsed = 0 /\ wLast = NO_SIZE /\ wCount = 0
    /\ wSeen = NO_SIZE /\ wSince = 0 /\ wSamples = 0 /\ wPolled = "none"

\* time.sleep(2), then start_time, last_size = -1, stable_count = 0.
WaitDelay ==
    /\ wpc = "sleep2"
    /\ wpc' = "polling"
    /\ wClock' = wClock + INITIAL_DELAY * TICKS_PER_SECOND
    /\ wElapsed' = 0
    /\ wLast' = NO_SIZE
    /\ wCount' = 0
    /\ UNCHANGED << watchVars, mainVars, batchVars, splitVars, joinVars, wSeen,
                    wSince, wSamples, wPolled >>

\* One pass of the while True loop.
WaitPoll(obs) ==
    /\ wpc = "polling"
    /\ IF TimedOut(wElapsed)
       THEN /\ wpc' = "false"
            /\ UNCHANGED << wClock, wElapsed, wLast, wCount, wSeen, wSince,
                            wSamples, wPolled >>
       ELSE /\ wCount' = AfterPoll(wCount, wLast, obs)[1]
            /\ wLast' = AfterPoll(wCount, wLast, obs)[2]
            /\ wPolled' = obs.kind
            /\ wSeen' = IF obs.kind = "size" THEN obs.size ELSE wSeen
            /\ wSince' = IF obs.kind = "size" /\ obs.size # wSeen THEN 0
                          ELSE Min(wSince + 1, STABLE_NEEDED)
            /\ wSamples' = IF obs.kind = "size" THEN Min(wSamples + 1, STABLE_NEEDED + 1)
                            ELSE wSamples
            /\ IF obs.kind = "size" /\ IsReady(wCount, wLast, obs.size)
               THEN /\ wpc' = "true"
                    /\ UNCHANGED << wClock, wElapsed >>
               ELSE \* time.sleep(0.5)
                    /\ wClock' = wClock + 1
                    /\ wElapsed' = wElapsed + 1
                    /\ UNCHANGED wpc
    /\ UNCHANGED << watchVars, mainVars, batchVars, splitVars, joinVars >>

NextReady == WaitDelay \/ \E obs \in Observations : WaitPoll(obs)

\* The thread that runs on_created is scheduled and its sleeps end.
SpecReady == InitReady /\ [][NextReady]_vars /\ WF_vars(NextReady)

\* ------------------------------------------------- main and SIGINT
\* main after observer.start(): the loop on should_exit, then the finally
\* block.  The observer thread runs on_created; it ends when stop() was
\* called and the call in progress has returned.

\* signal_handler: should_exit = True.
SignalHandler ==
    /\ mainpc # "exited"
    /\ should_exit' = TRUE
    /\ UNCHANGED << watchVars, mainpc, observer, stop_run, otherVarsBut >>

\* while not should_exit: time.sleep(1)
MainLoop ==
    /\ mainpc = "loop"
    /\ should_exit
    /\ mainpc' = "stop"
    /\ UNCHANGED << watchVars, should_exit, observer, stop_run, otherVarsBut >>

\* observer.stop()
ObserverStop ==
    /\ mainpc = "stop"
    /\ observer' = "stopped"
    /\ mainpc' = "join"
    /\ stop_run' = run["h1"]
    /\ UNCHANGED << watchVars, should_exit, otherVarsBut >>

ObserverJoinNoWait ==
    /\ mainpc = "join"
    /\ mainpc' = "exited"
    /\ UNCHANGED << watchVars, should_exit, observer, stop_run, otherVarsBut >>

\* observer.join(), then main returns.
ObserverJoin ==
    /\ mainpc = "join"
    /\ pc["h1"] = "idle"
    /\ mainpc' = "exited"
    /\ UNCHANGED << watchVars, should_exit, observer, stop_run, otherVarsBut >>

\* The steps of a call of on_created after its event was delivered.
Progress(h, obsSet) ==
    \/ InitialDelay(h)
    \/ \E obs \in obsSet : Poll(h, obs)
    \/ Process(h)
    \/ \E ok \in BOOLEAN : LoadModel(h, ok)
    \/ \E ok \in BOOLEAN, d \in Durations : Convert(h, ok, d)
    \/ LoopStep(h)
    \/ \E ok \in BOOLEAN : Transcribe(h, ok)
    \/ UnlinkTemp(h)
    \/ \E res \in SaveResults : Save(h, res)
    \/ Finally(h)
    \/ Return(h)

\* What a poll finds here: the file is not there yet, or it is there with
\* the size it keeps.
WatchObservations ==
    { [kind |-> "missing", size |-> 0], [kind |-> "size", size |-> 0] }

NextWatch ==
    \/ Step("h1", WatchObservations)
    \/ SignalHandler
    \/ MainLoop
    \/ ObserverStop
    \/ ObserverJoin

\* The threads are scheduled and every call made by on_created returns or
\* raises; when a signal or an event arrives is up to the environment.
SpecWatch ==
    /\ Init
    /\ [][NextWatch]_vars
    /\ WF_vars(Progress("h1", WatchObservations))
    /\ WF_vars(MainLoop)
    /\ WF_vars(ObserverStop)
    /\ WF_vars(ObserverJoin)

\* --------------------------------------------------- batch script
\* transcribe.py: main finds the input files once and handles them in a
\* for loop, each in its own try block.

PathC == [stem |-> "c", suffix |-> ".m4a"]
PathE == [stem |-> "B", suffix |-> ".m4a"]
BatchEntries == { PathA, PathB, PathC, PathE, PathX }

\* input_path.glob("*.m4a"): the pattern is matched letter for letter.
Glob(dir) == { p \in dir : p.suffix = ".m4a" }

\* sorted(m4a_files): paths compare as their strings do, capitals first.
CodePointOrder == << PathE, PathA, PathX, PathB, PathC >>
Rank(p) == CHOOSE i \in 1..Len(CodePointOrder) : CodePointOrder[i] = p
RECURSIVE Sorted(_)
Sorted(files) ==
    IF files = {} THEN <<>>
    ELSE LET first == CHOOSE p \in files : \A q \in files : Rank(p) <= Rank(q)
         IN  << first >> \o Sorted(files \ {first})

\* transcribe_audio: the if / elif / else on torch.backends.mps.is_available()
\* and torch.cuda.is_available() that gives load_model its device.
SelectDevicePrefersCuda(mps, cuda) ==
    IF cuda THEN "cuda" ELSE IF mps THEN "mps" ELSE "cpu"
SelectDevice(mps, cuda) ==
    IF mps THEN "mps" ELSE IF cuda THEN "cuda" ELSE "cpu"

\* How transcribe_audio and save_transcription end for one file.
BatchResults ==
    { "done", "load_error", "decode_error", "recognition_error",
      "persistence_error" }

\* except Exception ... continue: the loop goes on with the next file.
AfterFailureBreak(pos, n) == n + 1
AfterFailure(pos, n) == pos + 1

InitBatch ==
    /\ InitPipeline
    /\ InitReadyIdle
    /\ InitSplitIdle
    /\ InitJoinIdle
    /\ bDir \in SUBSET BatchEntries
    /\ bpc = "start" /\ bFiles = <<>> /\ bPos = 0
    /\ bStatus = -1 /\ bLog = <<>> /\ bTemp = FALSE
    /\ bProbes \in [mps : BOOLEAN, cuda : BOOLEAN]

\* main, lines 340-346: get_m4a_files and sys.exit(1) when it finds none.
BatchStart ==
    /\ bpc = "start"
    /\ bFiles' = Sorted(Glob(bDir))
    /\ IF Glob(bDir) = {}
       THEN bpc' = "exit" /\ bStatus' = 1 /\ bPos' = 0
       ELSE bpc' = "loop" /\ bStatus' = -1 /\ bPos' = 1
    /\ UNCHANGED << pipelineVars, splitVars, joinVars, bDir, bLog, bTemp, bProbes >>

\* main, lines 357-373: one pass of the for loop; transcribe_audio picks the
\* device once, before it loads the model.  A recognition error
\* leaves its temp_chunk file; the next export writes over it.
BatchFile(res) ==
    /\ bpc = "loop"
    /\ bPos <= Len(bFiles)
    /\ bLog' = Append(bLog, [file |-> bFiles[bPos], result |-> res,
                              device |-> SelectDevice(bProbes.mps, bProbes.cuda)])
    /\ bTemp' = (res = "recognition_error")
    /\ bPos' = IF res = "done" THEN bPos + 1 ELSE AfterFailure(bPos, Len(bFiles))
    /\ UNCHANGED << pipelineVars, splitVars, joinVars, bDir, bpc, bFiles, bStatus,
                    bProbes >>

\* main, lines 375-381: the loop is over and main returns.
BatchEnd ==
    /\ bpc = "loop"
    /\ bPos > Len(bFiles)
    /\ bpc' = "exit"
    /\ bStatus' = 0
    /\ UNCHANGED << pipelineVars, splitVars, joinVars, bDir, bFiles, bPos, bLog, bTemp,
                    bProbes >>

NextBatch == BatchStart \/ (\E res \in BatchResults : BatchFile(res)) \/ BatchEnd

SpecBatch == InitBatch /\ [][NextBatch]_vars

\* ------------------------------------------- assembly and persistence
\* "\n".join(all_transcriptions) and save_transcription as functions of
\* the segment texts: result["text"] is whatever the recogniser returns,
\* line breaks and carriage returns included.

Chars == { "a", "\n", "\r" }
Texts == UNION { [1..k -> Chars] : k \in 0..MaxTextLen }
ExampleTexts == << << "a" >>, << "b" >>, << "c" >> >>
TextLists == UNION { [1..k -> Texts] : k \in 0..MaxTexts } \cup { ExampleTexts }
JoinSource == "a.m4a"

InitJoin ==
    /\ InitPipeline
    /\ InitReadyIdle
    /\ InitBatchIdle
    /\ InitSplitIdle
    /\ jTexts \in TextLists
    /\ jSep \in Lineseps
    /\ jBody = <<>> /\ jFile = <<>> /\ jRead = <<>>
    /\ jpc = "in"

\* transcribe_audio, line 238.
JoinApply ==
    /\ jpc = "in"
    /\ jBody' = Join(jTexts)
    /\ jpc' = "joined"
    /\ UNCHANGED << pipelineVars, batchVars, splitVars, jTexts, jSep, jFile, jRead >>

\* save_transcription, lines 285-293.
PersistApply ==
    /\ jpc = "joined"
    /\ jFile' = FileContent(JoinSource, jBody, jSep)
    /\ jpc' = "saved"
    /\ UNCHANGED << pipelineVars, batchVars, splitVars, jTexts, jSep, jBody, jRead >>

\* The reader of the round trip (no reader is part of the program): the
\* line endings of the platform become "\n" again and the header block
\* is dropped.
RECURSIVE Decode(_, _)
Decode(content, linesep) ==
    IF content = <<>> THEN <<>>
    ELSE IF Len(content) >= Len(linesep)
            /\ SubSeq(content, 1, Len(linesep)) = linesep
         THEN << "\n" >>
                  \o Decode(SubSeq(content, Len(linesep) + 1, Len(content)), linesep)
         ELSE << Head(content) >> \o Decode(Tail(content), linesep)

ReadBody(content, original_filename, linesep) ==
    LET t == Decode(content, linesep)
    IN  SubSeq(t, Len(Header(original_filename)) + 1, Len(t))

ReadApply ==
    /\ jpc = "saved"
    /\ jRead' = ReadBody(jFile, JoinSource, jSep)
    /\ jpc' = "read"
    /\ UNCHANGED << pipelineVars, batchVars, splitVars, jTexts, jSep, jBody, jFile >>

NextJoin == JoinApply \/ PersistApply \/ ReadApply

SpecJoin == InitJoin /\ [][NextJoin]_vars

\* ------------------------------------------------------------- claims

\* From the acceptance of its event until its cleanup step.
InFlight(h) ==
    pc[h] \in { "sleep2", "wait", "process", "load", "chunks", "loop",
                "transcribe", "unlink", "save", "finally" }
\* Between processing_files.add and processing_files.discard.
Holding(h) ==
    pc[h] \in { "load", "chunks", "loop", "transcribe", "unlink", "save", "finally" }
Errored(h) == outcome[h] \notin { "none", "done" }
CeilDiv(a, b) == (a + b - 1) \div b

\* C1: while a dispatch of a path is in flight, a second dispatch of that
\* path is ignored, so no two calls are ever in flight on the same path.
C1_DuplicateDispatchIgnored ==
    \A g, h \in Handlers :
        (g # h /\ InFlight(g) /\ InFlight(h)) => path[g] # path[h]

\* C2: after every run, whatever its outcome, the path is gone from
\* processing_files, and processing_files holds exactly the paths of the
\* calls between add and discard: it is empty when no file is processed.
C2_ProcessingSetCleared ==
    /\ \A h \in Handlers : pc[h] = "returned" => path[h] \notin processing_files
    /\ processing_files = { path[h] : h \in { g \in Handlers : Holding(g) } }
C2_Witness ==
    \E h \in Handlers :
        /\ pc[h] = "returned"
        /\ outcome[h] = "persistence_error"
        /\ "add" \in stages[h]
        /\ processing_files = {}

\* C3: once a run has ended, no temp file that run exported is on disk.
C3_NoArtifactAfterRun ==
    \A h \in Handlers :
        pc[h] = "returned" => \A k \in TempNames : temp_files[k].run # run[h]

\* C4: a run that ended in an error left no file, complete or partial, in
\* the output directory.
C4_NoOutputAfterFailure ==
    \A h \in Handlers :
        (pc[h] = "returned" /\ Errored(h)) => \A o \in outputs : o.run # run[h]

\* C5: a failed run halts nothing and changes no later result: no exception
\* escapes on_created, an idle handler accepts exactly the qualifying events,
\* and a run that ends in Done wrote the transcript its own recording gives.
ExpectedTranscript(p, d) ==
    LET cs == ConvertAudioToChunks(d, CHUNK_LENGTH_MS)
    IN Join([k \in 1..Len(cs) |->
                WhisperText([src |-> p, lo |-> cs[k][1], hi |-> cs[k][2], run |-> 0])])
C5_FailureIsContained ==
    /\ ~halted
    /\ (\A h \in Handlers : pc[h] \in {"idle", "returned"}) =>
          \A ev \in Events : Accepts(ev, processing_files) = Accepts(ev, {})
    /\ \A h \in Handlers :
          (pc[h] = "returned" /\ outcome[h] = "done") =>
              \E o \in outputs :
                  /\ o.run = run[h]
                  /\ o.complete
                  /\ o.name.stem = path[h].stem
                  /\ o.body = ExpectedTranscript(path[h], dur[h])
C5_Witness ==
    \E h \in Handlers :
        /\ pc[h] = "returned"
        /\ outcome[h] = "done"
        /\ failures >= 1
        /\ Len(chunks[h]) >= 2
        /\ \E k \in TempNames :
              /\ temp_files[k] # Absent
              /\ temp_files[k].run < run[h]
              /\ temp_files[k].src # path[h]

\* C6: the readiness wait returns True only after STABLE_NEEDED successive
\* samples equal to the sample before them; while it waits, stable_count is
\* the number of such samples and last_size the size of the latest sample.
C6_ReadyOnlyWhenStable ==
    \A h \in Handlers :
        /\ pc[h] = "process" => streak[h] >= STABLE_NEEDED
        /\ pc[h] \in {"wait", "process"} =>
              /\ stable_count[h] = streak[h]
              /\ last_size[h] = seen[h]
        /\ pc[h] = "wait" => stable_count[h] < STABLE_NEEDED
C6_Witness ==
    \E h \in Handlers :
        /\ pc[h] = "process"
        /\ streak[h] = STABLE_NEEDED
        /\ elapsed[h] = STABLE_NEEDED + 2

\* C7: a file whose size changes on every poll is never declared ready and
\* the wait ends at most one poll after max_wait; a run that timed out entered
\* no stage but the wait, wrote no output and no temp file, and its path is
\* not in processing_files.
C7_ChangingFileTimesOut ==
    \A h \in Handlers :
        /\ changing[h] =>
              \/ pc[h] = "wait"
              \/ pc[h] = "returned" /\ outcome[h] = "timeout"
        /\ pc[h] = "wait" => elapsed[h] <= MAX_WAIT * TICKS_PER_SECOND + 1
        /\ (pc[h] = "returned" /\ outcome[h] = "timeout") =>
              /\ stages[h] = {"wait"}
              /\ path[h] \notin processing_files
              /\ \A o \in outputs : o.run # run[h]
              /\ \A k \in TempNames : temp_files[k].run # run[h]
C7_Witness ==
    \E h \in Handlers :
        /\ pc[h] = "returned"
        /\ outcome[h] = "timeout"
        /\ changing[h]
        /\ elapsed[h] > MAX_WAIT * TICKS_PER_SECOND

\* C8: the splitter gives ceil(D/M) chunks, in ascending order, contiguous
\* from 0 to D, none empty, none longer than M, only the last shorter than M.
C8_SplitCoversRecording ==
    sDone =>
        LET n == Len(sOut)
        IN /\ n = CeilDiv(sD, sM)
           /\ n > 0 => (sOut[1][1] = 0 /\ sOut[n][2] = sD)
           /\ \A k \in 1..n :
                 /\ sOut[k][1] < sOut[k][2]
                 /\ sOut[k][2] - sOut[k][1] <= sM
                 /\ k < n => sOut[k][2] - sOut[k][1] = sM
                 /\ k < n => sOut[k][2] = sOut[k + 1][1]
C8_Witness ==
    /\ sDone
    /\ Len(sOut) = 3
    /\ sOut[3][2] - sOut[3][1] < sM
    /\ sM > 1

\* The run of h has decoded its recording.
Decoded(h) ==
    \/ pc[h] \in { "loop", "transcribe", "unlink", "save" }
    \/ /\ pc[h] \in { "finally", "returned" }
       /\ "split" \in stages[h]
       /\ outcome[h] # "decode_error"
OneSegmentTranscript(h) ==
    /\ Len(chunks[h]) = 1
    /\ (pc[h] = "returned" /\ outcome[h] = "done") =>
          \E o \in outputs :
              o.run = run[h] /\ o.complete /\ o.body = WhisperText(chunks[h][1])

\* C9 as stated: every recording shorter than the chunk length gives exactly
\* one chunk, and the transcript is that chunk's text.
C9_ShortFileOneSegment ==
    \A h \in Handlers :
        (Decoded(h) /\ dur[h] < CHUNK_LENGTH_MS) => OneSegmentTranscript(h)

\* C9 amended: every recording of nonzero duration shorter than the chunk
\* length gives exactly one chunk, and the transcript is that chunk's text
\* with no line break added.
C9_NonEmptyShortFileOneSegment ==
    \A h \in Handlers :
        (Decoded(h) /\ 0 < dur[h] /\ dur[h] < CHUNK_LENGTH_MS) =>
            OneSegmentTranscript(h)
C9_Witness ==
    \E h \in Handlers :
        /\ pc[h] = "returned"
        /\ outcome[h] = "done"
        /\ dur[h] = CHUNK_LENGTH_MS - 1
        /\ \E o \in outputs : o.run = run[h] /\ o.body = << "a", "0" >>

\* C10: chunks are recognized in index order, one at a time, each after the
\* one before it has returned; when recognition of chunk k fails no later
\* chunk is attempted, the temp files of the chunks before k are gone, and
\* the run writes no output.
C10_SequentialRecognition ==
    \A h \in Handlers :
        /\ attempted[h] = [i \in 1..Len(attempted[h]) |-> i - 1]
        /\ Len(attempted[h]) <= Len(chunks[h])
        /\ pc[h] = "transcribe" =>
              /\ Len(attempted[h]) = idx[h]
              /\ Len(all_transcriptions[h]) = idx[h]
        /\ outcome[h] = "recognition_error" =>
              /\ Len(attempted[h]) = idx[h] + 1
              /\ Len(all_transcriptions[h]) = idx[h]
              /\ \A j \in 0..(idx[h] - 1) : temp_files[j] = Absent
              /\ \A o \in outputs : o.run # run[h]
C10_Witness ==
    \E h \in Handlers :
        /\ pc[h] = "returned"
        /\ outcome[h] = "recognition_error"
        /\ Len(chunks[h]) = 3
        /\ attempted[h] = << 0, 1 >>
        /\ temp_files[0] = Absent

\* ------------------------------------------------------------- C11

CountBreaks(text) == Cardinality({ i \in 1..Len(text) : text[i] = "\n" })
HasBreak(text) == CountBreaks(text) > 0

\* text.split("\n"): the pieces between the line breaks, empty ones kept.
RECURSIVE SplitLines(_)
SplitLines(text) ==
    IF ~HasBreak(text) THEN << text >>
    ELSE LET k == CHOOSE i \in 1..Len(text) :
                      text[i] = "\n" /\ \A j \in 1..(i - 1) : text[j] # "\n"
         IN  << SubSeq(text, 1, k - 1) >>
                 \o SplitLines(SubSeq(text, k + 1, Len(text)))

\* Where text i starts in the body when each earlier text is followed by
\* one separator.
RECURSIVE Offset(_, _)
Offset(texts, i) ==
    IF i = 1 THEN 0 ELSE Offset(texts, i - 1) + Len(texts[i - 1]) + 1

InOrderWithSeparators(texts, body) ==
    /\ Len(body) = Offset(texts, Len(texts)) + Len(texts[Len(texts)])
    /\ \A i \in 1..Len(texts) :
         /\ SubSeq(body, Offset(texts, i) + 1, Offset(texts, i) + Len(texts[i]))
                = texts[i]
         /\ i > 1 => body[Offset(texts, i)] = "\n"

\* C11 as stated: for n >= 1 texts the body holds exactly n-1 line breaks
\* and its i-th piece, split on the line break, is the text of segment i.
C11_SplitRecoversTexts ==
    (jpc # "in" /\ Len(jTexts) >= 1) =>
        /\ InOrderWithSeparators(jTexts, jBody)
        /\ CountBreaks(jBody) = Len(jTexts) - 1
        /\ SplitLines(jBody) = jTexts

\* C11 amended: the body is the texts in segment order with one line break
\* between neighbours, n-1 inserted for n >= 1 texts, none dropped or
\* reordered, an empty text keeping its position; when no text holds a
\* line break itself, the body holds exactly n-1 line breaks and its i-th
\* piece is the text of segment i.
C11_JoinedInOrder ==
    (jpc # "in" /\ Len(jTexts) >= 1) =>
        /\ InOrderWithSeparators(jTexts, jBody)
        /\ (\A i \in 1..Len(jTexts) : ~HasBreak(jTexts[i])) =>
              /\ CountBreaks(jBody) = Len(jTexts) - 1
              /\ SplitLines(jBody) = jTexts

C11_Witness ==
    /\ jpc = "joined"
    /\ Len(jTexts) = 3
    /\ jTexts[2] = <<>>
    /\ jTexts[1] = << "a" >> /\ jTexts[3] = << "a" >>
    /\ jBody = << "a", "\n", "\n", "a" >>

\* ------------------------------------------------------------- C12

Succeeded == { r \in Runs : ledger[r].done > 0 }
OutputOf(r) == { o \in outputs : o.run = r /\ o.complete }

\* C12: every successful run has its own output file, named by the stem
\* of its input and a timestamp; no output of an earlier run is replaced;
\* the complete output files are as many as the successful runs, and when
\* every run so far succeeded they are all the files of the directory.
C12_OneOutputPerSuccess ==
    /\ \A r \in Succeeded :
          \E o \in OutputOf(r) :
              /\ o.name.stem = ledger[r].src.stem
              /\ o.name.ts \in 0..sec
    /\ \A o1, o2 \in outputs : o1.name = o2.name => o1 = o2
    /\ Cardinality({ o \in outputs : o.complete }) = Cardinality(Succeeded)
    /\ failures = 0 => Cardinality(outputs) = Cardinality(Succeeded)

C12_Witness ==
    /\ Succeeded = {1, 2}
    /\ ledger[1].src = PathA /\ ledger[2].src = PathA
    /\ Cardinality(outputs) = 2
    /\ failures = 0

\* ------------------------------------------------------------- C13

IsAudioFile(ev) == ~ev.is_directory /\ ev.src_path.suffix \in { ".m4a", ".M4A" }

\* C13: a delivered event starts a run exactly when it is not a directory
\* and its extension is the audio one in any letter case; any other event
\* starts no delay, wait or processing and leaves ProcessingSet and the
\* output directory as they were.
C13_FilterDecidesDispatch ==
    [][ delivered' # delivered =>
          IF IsAudioFile(event')
          THEN /\ pc'["h1"] = "sleep2"
               /\ path'["h1"] = event'.src_path
          ELSE /\ pc' = pc
               /\ stages' = stages
               /\ ledger' = ledger
               /\ processing_files' = processing_files
               /\ outputs' = outputs
               /\ temp_files' = temp_files ]_vars

C13_Witness ==
    /\ delivered = 2
    /\ ledger[1].src = NoPath
    /\ event.src_path = PathB
    /\ pc["h1"] = "sleep2"

\* ------------------------------------------------------------- C14

BeforeSave(h) ==
    pc[h] \in { "sleep2", "wait", "process", "load", "chunks", "loop",
                "transcribe", "unlink", "save" }

\* C14: save_transcription is reached only when every segment was
\* recognised; a successful run has saved exactly once; while a run waits,
\* splits or recognises, the output directory holds no file of that run.
C14_PersistAfterAllSegments ==
    \A h \in Handlers :
        /\ (pc[h] = "save" \/ "save" \in stages[h]) =>
              /\ "split" \in stages[h]
              /\ Len(all_transcriptions[h]) = Len(chunks[h])
              /\ attempted[h] = [k \in 1..Len(chunks[h]) |-> k - 1]
        /\ BeforeSave(h) => \A o \in outputs : o.run # run[h]
        /\ outcome[h] = "done" =>
              /\ ledger[run[h]].saves = 1
              /\ Cardinality({ o \in outputs : o.run = run[h] }) = 1

C14_Witness ==
    /\ outcome["h1"] = "done"
    /\ Len(chunks["h1"]) = 3
    /\ ledger[run["h1"]].saves = 1

\* ------------------------------------------------------------- C15

Ended(h) == pc[h] = "returned" /\ outcome[h] # "none"

\* C15: once should_exit is set, main stops the observer, waits until its
\* thread has ended and exits; after observer.stop() no event is
\* delivered; the run in flight at that moment is not cut short but goes
\* on until it has ended as done or with an error, and main exits only
\* after that.
C15_StopsAfterInterrupt ==
    /\ should_exit ~> (mainpc = "exited")
    /\ [](mainpc = "exited" => (observer = "stopped" /\ pc["h1"] = "idle"))
    /\ [][observer = "stopped" => delivered' = delivered]_vars
    /\ [][(InFlight("h1") /\ ~InFlight("h1")') => Ended("h1")']_vars
    /\ \A r \in Runs :
          (observer = "stopped" /\ stop_run = r /\ run["h1"] = r)
              ~> (run["h1"] = r /\ Ended("h1") /\ mainpc # "exited")

C15_Witness ==
    /\ mainpc = "exited"
    /\ stop_run = 1
    /\ ledger[1].done = 1
    /\ delivered = 1

\* ------------------------------------------------------------- C16

\* C16: per event at most one readiness wait, at most one transcription
\* attempt and at most one save, and none without its event; a file that
\* failed is taken up again only by a later event; a finished file added
\* again under its name is a run of its own whose output leaves the
\* earlier one in place.
C16_NoAutomaticRetry ==
    /\ \A r \in Runs :
          /\ ledger[r].waits <= 1
          /\ ledger[r].attempts <= ledger[r].waits
          /\ ledger[r].saves <= ledger[r].attempts
          /\ r > delivered => ledger[r] = NoTally
    /\ \A r1, r2 \in Succeeded :
          (r1 < r2 /\ ledger[r1].src = ledger[r2].src) =>
              \E o1 \in OutputOf(r1), o2 \in OutputOf(r2) : o1.name # o2.name

C16_Witness ==
    /\ ledger[1].src = PathA /\ ledger[2].src = PathA
    /\ ledger[1].attempts = 1 /\ ledger[1].done = 0
    /\ ledger[2].attempts = 1 /\ ledger[2].done = 1
    /\ failures = 1

\* ------------------------------------------------------------- C17

Found == { p \in bDir : p.suffix = ".m4a" }
NameBefore(p, q) ==
    \E i, j \in 1..Len(CodePointOrder) :
        i < j /\ CodePointOrder[i] = p /\ CodePointOrder[j] = q

\* C18: with no .m4a file in the input directory at startup the batch
\* run exits with status 1 and transcribes nothing; otherwise it takes
\* the files found in name order and, whatever the result of each, takes
\* every one of them before it exits with status 0.
C18_BatchOrderAndExit ==
    /\ Found = {} => bLog = <<>>
    /\ (bpc = "exit" /\ Found = {}) => bStatus = 1
    /\ \A i \in 1..Len(bLog) : bLog[i].file \in Found
    /\ \A i, j \in 1..Len(bLog) : i < j => NameBefore(bLog[i].file, bLog[j].file)
    /\ (bpc = "exit" /\ Found # {}) =>
          /\ bStatus = 0
          /\ { bLog[i].file : i \in 1..Len(bLog) } = Found

C18_Witness ==
    /\ bpc = "exit"
    /\ Found = { PathA, PathC, PathE }
    /\ bDir # Found
    /\ bLog[1].result = "recognition_error"
    /\ bLog[2].result = "done"
    /\ bLog[3].result = "persistence_error"

\* ------------------------------------------------------------- C19

\* C19: from the acceptance of a dispatch on, through the initial delay,
\* the readiness wait, decoding and recognition, the path is in
\* processing_files.
C19_InSetDuringBlockingWork ==
    \A h \in Handlers :
        pc[h] \in { "sleep2", "wait", "process", "load", "chunks", "loop",
                    "transcribe", "unlink" }
            => path[h] \in processing_files

\* ------------------------------------------------------------- C20

\* C20: whisper.load_model runs at most once in a process, however many
\* files it handles.
C20_ModelLoadedOnce == loads <= 1

\* ------------------------------------------------------------- C21

\* C21: _wait_for_file_ready returns True only when at least STABLE_NEEDED
\* poll intervals have passed since a sample last differed from the one
\* before it, and no sample is taken before the initial delay after the
\* creation event is over.
C21_ReadyNoEarlierThanWindow ==
    /\ wpc = "true" => wSince >= STABLE_NEEDED
    /\ wSamples >= 1 => wClock >= INITIAL_DELAY * TICKS_PER_SECOND
    /\ wpc = "sleep2" => (wSamples = 0 /\ wPolled = "none")
    /\ wpc = "true" =>
          wClock >= INITIAL_DELAY * TICKS_PER_SECOND + STABLE_NEEDED

C21_Witness ==
    /\ wpc = "true"
    /\ wSince = STABLE_NEEDED
    /\ wSeen = 1
    /\ wElapsed = 5
    /\ wClock = INITIAL_DELAY * TICKS_PER_SECOND + 5

\* ------------------------------------------------------------- C22

\* C22: whatever the polls find, _wait_for_file_ready returns; it has
\* returned False one poll interval after max_wait at the latest, and a
\* pass of the loop that starts after max_wait returns False.
C22_WaitTerminates ==
    /\ (wpc = "polling") ~> (wpc \in { "true", "false" })
    /\ [](wElapsed <= MAX_WAIT * TICKS_PER_SECOND + 1)
    /\ [](wpc = "false" => wElapsed = MAX_WAIT * TICKS_PER_SECOND + 1)
    /\ [][(wpc = "polling" /\ wElapsed > MAX_WAIT * TICKS_PER_SECOND)
             => wpc' = "false"]_vars

C22_Witness ==
    /\ wpc = "false"
    /\ wSamples = 0
    /\ wPolled = "error"
    /\ wElapsed = MAX_WAIT * TICKS_PER_SECOND + 1

\* ------------------------------------------------------------- C23

\* C23: a pass of the loop that finds no file, or whose stat() raises,
\* leaves stable_count and last_size as they were, does not end the wait
\* and is followed by the next pass one poll interval later.
C23_FailedPollChangesNothing ==
    [][ (wpc = "polling" /\ wElapsed' # wElapsed /\ wPolled' \in { "missing", "error" })
           => /\ wCount' = wCount
              /\ wLast' = wLast
              /\ wpc' = "polling"
              /\ wElapsed' = wElapsed + 1 ]_vars

C23_Witness ==
    /\ wpc = "polling"
    /\ wPolled \in { "missing", "error" }
    /\ wCount = STABLE_NEEDED - 1
    /\ wLast = 1
    /\ wElapsed = 4

\* ------------------------------------------------------------- C26

\* C26: the first successful sample only sets last_size, so True is
\* returned on the fourth successful sample at the earliest; an empty
\* file is sampled like any other and is ready after three repeats.
C26_BaselineThenThreeRepeats ==
    /\ wpc = "true" => wSamples >= STABLE_NEEDED + 1
    /\ (wpc = "polling" /\ wSamples = 1) => (wCount = 0 /\ wLast = wSeen)
    /\ wSamples = 0 => (wCount = 0 /\ wLast = NO_SIZE)
    /\ wpc = "polling" => wCount < STABLE_NEEDED
    /\ wpc = "true" => wLast = wSeen

C26_Witness ==
    /\ wpc = "true"
    /\ wSeen = 0
    /\ wLast = 0
    /\ wSamples = STABLE_NEEDED + 1
    /\ wElapsed = STABLE_NEEDED

\* ------------------------------------------------------------- C24

Devices == { "mps", "cuda", "cpu" }

\* C24: every load is given exactly one device: mps whenever mps is
\* available, whatever cuda answers; else cuda when it is available; else
\* cpu.
C24_DevicePriority ==
    \A i \in 1..Len(bLog) :
        /\ bLog[i].device \in Devices
        /\ bProbes.mps => bLog[i].device = "mps"
        /\ (~bProbes.mps /\ bProbes.cuda) => bLog[i].device = "cuda"
        /\ (~bProbes.mps /\ ~bProbes.cuda) => bLog[i].device = "cpu"

C24_Witness ==
    /\ bProbes.mps /\ bProbes.cuda
    /\ Len(bLog) = 2
    /\ bLog[1].device = "mps" /\ bLog[2].device = "mps"

\* ------------------------------------------------------------- C25

\* C25: with one call of on_created at a time, processing_files is empty
\* whenever a call starts, so the check at line 349 turns no audio file
\* away: every delivered audio event, a repeated path included, becomes a
\* run of its own, and every run that succeeds has its output file.
C25_SerialDispatchNeverRefused ==
    /\ (\A h \in Handlers : pc[h] \in { "idle", "sleep2", "wait", "process" })
          => processing_files = {}
    /\ (delivered >= 1 /\ IsAudioFile(event)) =>
          ledger[delivered].src = event.src_path
    /\ \A r \in Succeeded : OutputOf(r) # {}

C25_Witness ==
    /\ pc["h1"] = "returned"
    /\ run["h1"] = 2
    /\ ledger[1].src = PathA /\ ledger[2].src = PathA
    /\ ledger[1].done = 1 /\ ledger[2].done = 1
    /\ OutputOf(1) # {} /\ OutputOf(2) # {}
    /\ processing_files = {}

\* ------------------------------------------------------------- C27

\* C27: a recording of duration 0 gives no chunk, model.transcribe is not
\* called for it, the transcript is the empty text, and the run ends as
\* done, with an output file that holds the header block and nothing else,
\* unless the write itself fails.
C27_EmptyRecording ==
    \A h \in Handlers :
        (Decoded(h) /\ dur[h] = 0) =>
            /\ chunks[h] = <<>>
            /\ attempted[h] = <<>>
            /\ "recognize" \notin stages[h]
            /\ all_transcriptions[h] = <<>>
            /\ pc[h] \in { "loop", "save", "finally", "returned" }
            /\ outcome[h] \in { "none", "done", "persistence_error" }
            /\ outcome[h] = "done" =>
                  \E o \in outputs :
                      /\ o.run = run[h] /\ o.complete
                      /\ o.body = <<>>
                      /\ \A linesep \in Lineseps :
                            FileContent(JoinSource, o.body, linesep)
                                = Encode(Header(JoinSource), linesep)

C27_Witness ==
    /\ pc["h1"] = "returned"
    /\ outcome["h1"] = "done"
    /\ "split" \in stages["h1"]
    /\ dur["h1"] = 0
    /\ "load" \in stages["h1"]
    /\ \E o \in outputs : o.run = run["h1"] /\ o.body = <<>> /\ o.complete

\* ------------------------------------------------------------- C28

OwnArtifacts(h) == { k \in TempNames : temp_files[k].run = run[h] }
AllRecognized(h) ==
    /\ Decoded(h)
    /\ pc[h] \in { "save", "finally", "returned" }
    /\ Len(all_transcriptions[h]) = Len(chunks[h])

\* C28: while chunk idx is exported and recognised, temp_chunk_<idx>.wav
\* is the only temp file of the run on disk; it is gone before the next
\* one is written; after a run that recognised every chunk none of its
\* temp files is left.
C28_OneArtifactAtATime ==
    \A h \in Handlers :
        run[h] # 0 =>
            /\ pc[h] \in { "transcribe", "unlink" } => OwnArtifacts(h) = { idx[h] }
            /\ pc[h] = "loop" => OwnArtifacts(h) = {}
            /\ AllRecognized(h) => OwnArtifacts(h) = {}

C28_Witness ==
    /\ pc["h1"] = "transcribe"
    /\ idx["h1"] = 2
    /\ OwnArtifacts("h1") = {2}
    /\ Len(all_transcriptions["h1"]) = 2

\* ------------------------------------------------------------- C29

\* C29: in every state the watcher of monitor.py reaches, and for every
\* input (event, poll result, load, decode, recognition and save result),
\* the step of monitor.py / transcribe.py is possible exactly when the step
\* of transcribe_auto.py is, and it is the same step: the same filter and
\* duplicate decision, the same readiness verdict, the same segments, and
\* the same processing_files, outputs and temp files after it.
C29_SameEnabled ==
    /\ \A ev \in Events :
          ENABLED MonOnCreated("h1", ev) <=> ENABLED OnCreated("h1", ev)
    /\ ENABLED MonInitialDelay("h1") <=> ENABLED InitialDelay("h1")
    /\ \A obs \in Observations :
          ENABLED MonPoll("h1", obs) <=> ENABLED Poll("h1", obs)
    /\ ENABLED MonProcess("h1") <=> ENABLED Process("h1")
    /\ \A ok \in BOOLEAN :
          ENABLED MonLoadModel("h1", ok) <=> ENABLED LoadModel("h1", ok)
    /\ \A ok \in BOOLEAN, d \in Durations :
          ENABLED MonConvert("h1", ok, d) <=> ENABLED Convert("h1", ok, d)
    /\ ENABLED MonLoopStep("h1") <=> ENABLED LoopStep("h1")
    /\ \A ok \in BOOLEAN :
          ENABLED MonTranscribe("h1", ok) <=> ENABLED Transcribe("h1", ok)
    /\ ENABLED MonUnlinkTemp("h1") <=> ENABLED UnlinkTemp("h1")
    /\ \A res \in SaveResults :
          ENABLED MonSave("h1", res) <=> ENABLED Save("h1", res)
    /\ ENABLED MonFinally("h1") <=> ENABLED Finally("h1")
    /\ ENABLED MonReturn("h1") <=> ENABLED Return("h1")

C29_SameStep ==
    /\ \A ev \in Events : MonOnCreated("h1", ev) <=> OnCreated("h1", ev)
    /\ MonInitialDelay("h1") <=> InitialDelay("h1")
    /\ \A obs \in Observations : MonPoll("h1", obs) <=> Poll("h1", obs)
    /\ MonProcess("h1") <=> Process("h1")
    /\ \A ok \in BOOLEAN : MonLoadModel("h1", ok) <=> LoadModel("h1", ok)
    /\ \A ok \in BOOLEAN, d \in Durations :
          MonConvert("h1", ok, d) <=> Convert("h1", ok, d)
    /\ MonLoopStep("h1") <=> LoopStep("h1")
    /\ \A ok \in BOOLEAN : MonTranscribe("h1", ok) <=> Transcribe("h1", ok)
    /\ MonUnlinkTemp("h1") <=> UnlinkTemp("h1")
    /\ \A res \in SaveResults : MonSave("h1", res) <=> Save("h1", res)
    /\ MonFinally("h1") <=> Finally("h1")
    /\ MonReturn("h1") <=> Return("h1")

C29_WatchersEquivalent ==
    /\ []C29_SameEnabled
    /\ [][C29_SameStep]_vars

C29_Witness ==
    /\ pc["h1"] = "returned"
    /\ outcome["h1"] = "done"
    /\ delivered = MaxEvents
    /\ processing_files = {}
    /\ Cardinality(outputs) = MaxEvents
    /\ \A k \in TempNames : temp_files[k] = Absent

====
